---- MODULE Spec2Model ----
(***************************************************************************)
(* Model of the INA220 current/power monitor driver (ATDev_INA220.cpp).    *)
(*                                                                         *)
(* The controller object, the device handle it creates in begin, and the   *)
(* two writable registers of the device (configuration and calibration)    *)
(* are the state.  Every public method is one action.  The outcome of each *)
(* bus transaction (acknowledged or not) and the content of the device's   *)
(* measurement registers at each read are inputs chosen by the             *)
(* environment.                                                            *)
(*                                                                         *)
(* float members and results are modelled as exact rationals <<num, den>>; *)
(* a denominator of 0 stands for the result of a division by zero.         *)
(***************************************************************************)
EXTENDS Integers, Sequences, FiniteSets, TLC

(***************************************************************************)
(* Bounds of the model.                                                    *)
(***************************************************************************)
NumWires == 2        \* transports a caller may hand to begin
NumAddrs == 2        \* addresses a caller may construct the controller with
NumRaw == 4          \* sample contents of a 16-bit measurement register
NumUninit == 2       \* sample contents of a member the constructor leaves unset
MaxBusValue == 65535 \* largest bus-voltage register content stepped through in SpecBus

Wires == 1..NumWires
Addrs == {64 + a : a \in 0..(NumAddrs - 1)}

RawSamples == <<100, 50, 65535, 32768, 11, 32767, 0, 65436>>
RawValues == {RawSamples[((i - 1) % Len(RawSamples)) + 1] : i \in 1..NumRaw}

UninitSamples == <<0, 4096, 77777, 1>>
UninitValues == {UninitSamples[((i - 1) % Len(UninitSamples)) + 1] : i \in 1..NumUninit}

NULL == [addr |-> -1, wire |-> 0]

(***************************************************************************)
(* Register map and configuration field values of the device               *)
(* (ATDev_INA220.h).                                                       *)
(***************************************************************************)
INA220_REG_CONFIG == 0
INA220_REG_SHUNTVOLTAGE == 1
INA220_REG_BUSVOLTAGE == 2
INA220_REG_POWER == 3
INA220_REG_CURRENT == 4
INA220_REG_CALIBRATION == 5

INA220_CONFIG_BVOLTAGERANGE_16V == 0
INA220_CONFIG_BVOLTAGERANGE_32V == 8192
INA220_CONFIG_GAIN_1_40MV == 0
INA220_CONFIG_GAIN_8_320MV == 6144
INA220_CONFIG_BADCRES_12BIT == 384
INA220_CONFIG_SADCRES_12BIT_1S_532US == 24
INA220_CONFIG_MODE_POWERDOWN == 0
INA220_CONFIG_MODE_SANDBVOLT_CONTINUOUS == 7

\* Values the device's writable registers hold after power-on.
ConfigResetValue == 14751
CalibrationResetValue == 0

(***************************************************************************)
(* Integer helpers: C++ integer conversions and bit operations.            *)
(***************************************************************************)
Pow2(n) == 2 ^ n

ToUint16(x) == x % 65536

ToInt16(x) == IF ToUint16(x) >= 32768 THEN ToUint16(x) - 65536 ELSE ToUint16(x)

ShiftRight(x, n) == x \div Pow2(n)

ShiftLeft(x, n) == x * Pow2(n)

RECURSIVE BitOr(_, _)
BitOr(a, b) ==
  IF a = 0 THEN b
  ELSE IF b = 0 THEN a
  ELSE (IF a % 2 = 1 \/ b % 2 = 1 THEN 1 ELSE 0) + 2 * BitOr(a \div 2, b \div 2)

\* The field of `width` bits at bit `shift` of a register word.
Field(word, shift, width) == ShiftRight(word, shift) % Pow2(width)

(***************************************************************************)
(* State.                                                                  *)
(***************************************************************************)
VARIABLES
  INA220_i2caddr,            \* address given to the constructor
  i2c_dev,                   \* device handle: NULL or [addr, wire]
  INA220_calValue,           \* stored calibration constant
  INA220_currentDivider_mA,  \* stored current divisor, <<num, den>>
  INA220_powerMultiplier_mW, \* stored power multiplier, <<num, den>>
  _success,                  \* outcome of the last transaction that set it
  dev,                       \* the device's configuration and calibration registers
  lastCall,                  \* the public method called last, with its argument
  trace,                     \* the bus transactions issued by that call, in order
  ret,                       \* what that call returned
  selected,                  \* history: the profile selected last, and whether both of its
                             \* writes were acknowledged with no powerSave since
  begun                      \* history: some call of begin has returned true

vars == <<INA220_i2caddr, i2c_dev, INA220_calValue, INA220_currentDivider_mA,
          INA220_powerMultiplier_mW, _success, dev, lastCall,
          trace, ret, selected, begun>>

ctl == <<INA220_calValue, INA220_currentDivider_mA, INA220_powerMultiplier_mW>>

Txn(op, reg, val, ok) == [op |-> op, reg |-> reg, val |-> val, ok |-> ok]

Call(op, arg) == [op |-> op, arg |-> arg]

Void == [type |-> "void", val |-> 0]
Bool(b) == [type |-> "bool", val |-> b]
Int16(i) == [type |-> "int16", val |-> i]
Float(num, den) == [type |-> "float", val |-> <<num, den>>]

NoProfile == [profile |-> "none", intact |-> FALSE]

(***************************************************************************)
(* Bus primitives of the register accessor.                                *)
(***************************************************************************)
\* Register write of 2 bytes, most significant first: the device register
\* takes the low 16 bits of the value when the transfer is acknowledged.
RegWrite(d, reg, value, ok) == IF ok THEN [d EXCEPT ![reg] = ToUint16(value)] ELSE d

\* Payload of a bit-slice write: the value masked to `bits` bits and shifted
\* into place; the bits outside the slice are zero.
BitsPayload(value, bits, shift) == ShiftLeft(value % Pow2(bits), shift)

\* Variant: a read-modify-write that keeps the bits outside the slice.
BitsWrite_ReadModifyWrite(d, reg, value, bits, shift, ok) ==
  RegWrite(d, reg,
           d[reg] - ShiftLeft(Field(d[reg], shift, bits), shift)
             + BitsPayload(value, bits, shift),
           ok)

\* Bit-slice write: the payload is written as the whole register, without
\* reading the register first.
BitsWrite(d, reg, value, bits, shift, ok) ==
  RegWrite(d, reg, BitsPayload(value, bits, shift), ok)

\* What a 16-bit read leaves in the caller's variable: the register content
\* when the transfer succeeds, and the variable's previous (unset) content
\* when it does not.
ReadInto(regval, ok, junk) == IF ok THEN ToUint16(regval) ELSE junk

(***************************************************************************)
(* Constructor.                                                            *)
(***************************************************************************)
Constructed ==
  /\ INA220_i2caddr \in Addrs
  /\ i2c_dev = NULL
  /\ INA220_calValue \in UninitValues
  /\ INA220_currentDivider_mA = <<0, 1>>
  /\ INA220_powerMultiplier_mW = <<0, 1>>
  /\ _success \in BOOLEAN
  /\ dev = [r \in {INA220_REG_CONFIG, INA220_REG_CALIBRATION} |->
              IF r = INA220_REG_CONFIG THEN ConfigResetValue ELSE CalibrationResetValue]
  /\ lastCall = Call("ATDev_INA220", INA220_i2caddr)
  /\ trace = <<>>
  /\ ret = Void
  /\ selected = NoProfile
  /\ begun = FALSE

Init == Constructed

(***************************************************************************)
(* Calibration profiles.  Each stores its three scalars, writes the        *)
(* calibration register, composes the configuration word and writes it,    *)
(* and keeps the outcome of the configuration write alone.  `pre` is what  *)
(* the calling method already put on the bus.                              *)
(***************************************************************************)
\* Variant: _success accumulates the outcome of both writes.
ApplyProfile_AndedSuccess(pre, name, cal, divider, multiplier, config, w1, w2) ==
  /\ INA220_calValue' = cal
  /\ INA220_currentDivider_mA' = divider
  /\ INA220_powerMultiplier_mW' = multiplier
  /\ dev' = RegWrite(RegWrite(dev, INA220_REG_CALIBRATION, cal, w1),
                     INA220_REG_CONFIG, config, w2)
  /\ trace' = pre \o <<Txn("write", INA220_REG_CALIBRATION, ToUint16(cal), w1),
                       Txn("write", INA220_REG_CONFIG, config, w2)>>
  /\ _success' = (w1 /\ w2)
  /\ selected' = [profile |-> name, intact |-> w1 /\ w2]

\* Variant: the calibration register is written before the new constant is
\* stored, so it receives the previous one.
ApplyProfile_WriteOldCal(pre, name, cal, divider, multiplier, config, w1, w2) ==
  /\ INA220_calValue' = cal
  /\ INA220_currentDivider_mA' = divider
  /\ INA220_powerMultiplier_mW' = multiplier
  /\ dev' = RegWrite(RegWrite(dev, INA220_REG_CALIBRATION, INA220_calValue, w1),
                     INA220_REG_CONFIG, config, w2)
  /\ trace' = pre \o <<Txn("write", INA220_REG_CALIBRATION, ToUint16(INA220_calValue), w1),
                       Txn("write", INA220_REG_CONFIG, config, w2)>>
  /\ _success' = w2
  /\ selected' = [profile |-> name, intact |-> w1 /\ w2]

\* Variant: the three scalars are stored only when both writes succeed.
ApplyProfile_StoreOnSuccess(pre, name, cal, divider, multiplier, config, w1, w2) ==
  /\ INA220_calValue' = IF w1 /\ w2 THEN cal ELSE INA220_calValue
  /\ INA220_currentDivider_mA' = IF w1 /\ w2 THEN divider ELSE INA220_currentDivider_mA
  /\ INA220_powerMultiplier_mW' = IF w1 /\ w2 THEN multiplier ELSE INA220_powerMultiplier_mW
  /\ dev' = RegWrite(RegWrite(dev, INA220_REG_CALIBRATION, cal, w1),
                     INA220_REG_CONFIG, config, w2)
  /\ trace' = pre \o <<Txn("write", INA220_REG_CALIBRATION, ToUint16(cal), w1),
                       Txn("write", INA220_REG_CONFIG, config, w2)>>
  /\ _success' = w2
  /\ selected' = [profile |-> name, intact |-> w1 /\ w2]

ApplyProfile(pre, name, cal, divider, multiplier, config, w1, w2) ==
  /\ INA220_calValue' = cal
  /\ INA220_currentDivider_mA' = divider
  /\ INA220_powerMultiplier_mW' = multiplier
  /\ dev' = RegWrite(RegWrite(dev, INA220_REG_CALIBRATION, cal, w1),
                     INA220_REG_CONFIG, config, w2)
  /\ trace' = pre \o <<Txn("write", INA220_REG_CALIBRATION, ToUint16(cal), w1),
                       Txn("write", INA220_REG_CONFIG, config, w2)>>
  /\ _success' = w2
  /\ selected' = [profile |-> name, intact |-> w1 /\ w2]

Config_ATDev_32V_2A ==
  BitOr(INA220_CONFIG_BVOLTAGERANGE_32V,
  BitOr(INA220_CONFIG_GAIN_1_40MV,
  BitOr(INA220_CONFIG_BADCRES_12BIT,
  BitOr(INA220_CONFIG_SADCRES_12BIT_1S_532US,
        INA220_CONFIG_MODE_SANDBVOLT_CONTINUOUS))))

Config_32V_2A ==
  BitOr(INA220_CONFIG_BVOLTAGERANGE_32V,
  BitOr(INA220_CONFIG_GAIN_8_320MV,
  BitOr(INA220_CONFIG_BADCRES_12BIT,
  BitOr(INA220_CONFIG_SADCRES_12BIT_1S_532US,
        INA220_CONFIG_MODE_SANDBVOLT_CONTINUOUS))))

Config_32V_1A ==
  BitOr(INA220_CONFIG_BVOLTAGERANGE_32V,
  BitOr(INA220_CONFIG_GAIN_8_320MV,
  BitOr(INA220_CONFIG_BADCRES_12BIT,
  BitOr(INA220_CONFIG_SADCRES_12BIT_1S_532US,
        INA220_CONFIG_MODE_SANDBVOLT_CONTINUOUS))))

\* Variant: the 16V profile composed with the 32V range.
Config_16V_400mA_Range32V ==
  BitOr(INA220_CONFIG_BVOLTAGERANGE_32V,
  BitOr(INA220_CONFIG_GAIN_1_40MV,
  BitOr(INA220_CONFIG_BADCRES_12BIT,
  BitOr(INA220_CONFIG_SADCRES_12BIT_1S_532US,
        INA220_CONFIG_MODE_SANDBVOLT_CONTINUOUS))))

Config_16V_400mA ==
  BitOr(INA220_CONFIG_BVOLTAGERANGE_16V,
  BitOr(INA220_CONFIG_GAIN_1_40MV,
  BitOr(INA220_CONFIG_BADCRES_12BIT,
  BitOr(INA220_CONFIG_SADCRES_12BIT_1S_532US,
        INA220_CONFIG_MODE_SANDBVOLT_CONTINUOUS))))

Profile_ATDev_32V_2A(pre, w1, w2) ==
  ApplyProfile(pre, "ATDev_32V_2A", 32000, <<25, 8>>, <<32, 5>>,
               Config_ATDev_32V_2A, w1, w2)

Profile_32V_2A(pre, w1, w2) ==
  ApplyProfile(pre, "32V_2A", 4096, <<10, 1>>, <<2, 1>>, Config_32V_2A, w1, w2)

Profile_32V_1A(pre, w1, w2) ==
  ApplyProfile(pre, "32V_1A", 10240, <<25, 1>>, <<4, 5>>, Config_32V_1A, w1, w2)

Profile_16V_400mA(pre, w1, w2) ==
  ApplyProfile(pre, "16V_400mA", 8192, <<20, 1>>, <<1, 1>>, Config_16V_400mA, w1, w2)

setCalibration_ATDev_32V_2A(w1, w2) ==
  /\ i2c_dev # NULL
  /\ Profile_ATDev_32V_2A(<<>>, w1, w2)
  /\ lastCall' = Call("setCalibration_ATDev_32V_2A", 0)
  /\ ret' = Void
  /\ UNCHANGED <<INA220_i2caddr, begun, i2c_dev>>

setCalibration_32V_2A(w1, w2) ==
  /\ i2c_dev # NULL
  /\ Profile_32V_2A(<<>>, w1, w2)
  /\ lastCall' = Call("setCalibration_32V_2A", 0)
  /\ ret' = Void
  /\ UNCHANGED <<INA220_i2caddr, begun, i2c_dev>>

setCalibration_32V_1A(w1, w2) ==
  /\ i2c_dev # NULL
  /\ Profile_32V_1A(<<>>, w1, w2)
  /\ lastCall' = Call("setCalibration_32V_1A", 0)
  /\ ret' = Void
  /\ UNCHANGED <<INA220_i2caddr, begun, i2c_dev>>

setCalibration_16V_400mA(w1, w2) ==
  /\ i2c_dev # NULL
  /\ Profile_16V_400mA(<<>>, w1, w2)
  /\ lastCall' = Call("setCalibration_16V_400mA", 0)
  /\ ret' = Void
  /\ UNCHANGED <<INA220_i2caddr, begun, i2c_dev>>

(***************************************************************************)
(* begin and init.                                                         *)
(***************************************************************************)
\* Variant: init applies the gain-8 32V/2A profile.
init_Gain8Profile(pre, w1, w2) == Profile_32V_2A(pre, w1, w2)

init(pre, w1, w2) == Profile_ATDev_32V_2A(pre, w1, w2)

\* The handle is created on the first call only; a later call keeps it.
BeginHandle(theWire) ==
  IF i2c_dev = NULL THEN [addr |-> INA220_i2caddr, wire |-> theWire] ELSE i2c_dev

\* `ok` is the outcome of the handle's own begin (the address probe).
begin(theWire, ok, w1, w2) ==
  /\ i2c_dev' = BeginHandle(theWire)
  /\ lastCall' = Call("begin", theWire)
  /\ ret' = Bool(ok)
  /\ IF ok
       THEN init(<<Txn("probe", i2c_dev'.addr, 0, TRUE)>>, w1, w2)
       ELSE /\ trace' = <<Txn("probe", i2c_dev'.addr, 0, FALSE)>>
            /\ UNCHANGED <<ctl, _success, dev, selected>>
  /\ begun' = (begun \/ ok)
  /\ UNCHANGED INA220_i2caddr

(***************************************************************************)
(* Raw reads.  Each is split into what the method puts on the bus and      *)
(* keeps in _success, and the value it returns.  `value` is what the read  *)
(* leaves in the method's local variable.                                  *)
(***************************************************************************)
\* Variant: only two bits are shifted out.
BusVoltageRaw_Shift2(value) == ToInt16(ShiftRight(value, 2) * 4)

\* (int16_t)((value >> 3) * 4)
BusVoltageRaw(value) == ToInt16(ShiftRight(value, 3) * 4)

BusVoltageRead(value, ok) ==
  /\ trace' = <<Txn("read", INA220_REG_BUSVOLTAGE, value, ok)>>
  /\ _success' = ok
  /\ UNCHANGED <<dev, selected>>

ShuntVoltageRead(value, ok) ==
  /\ trace' = <<Txn("read", INA220_REG_SHUNTVOLTAGE, value, ok)>>
  /\ _success' = ok
  /\ UNCHANGED <<dev, selected>>

\* Variant: the current register is read before the calibration re-write.
CurrentRead_ReadFirst(value, w, ok) ==
  /\ dev' = RegWrite(dev, INA220_REG_CALIBRATION, INA220_calValue, w)
  /\ trace' = <<Txn("read", INA220_REG_CURRENT, value, ok),
                Txn("write", INA220_REG_CALIBRATION, ToUint16(INA220_calValue), w)>>
  /\ _success' = ok
  /\ UNCHANGED selected

\* The calibration register is re-written with the stored constant, its
\* outcome dropped, and then the current register is read.
CurrentRead(value, w, ok) ==
  /\ dev' = RegWrite(dev, INA220_REG_CALIBRATION, INA220_calValue, w)
  /\ trace' = <<Txn("write", INA220_REG_CALIBRATION, ToUint16(INA220_calValue), w),
                Txn("read", INA220_REG_CURRENT, value, ok)>>
  /\ _success' = ok
  /\ UNCHANGED selected

PowerRead(value, w, ok) ==
  /\ dev' = RegWrite(dev, INA220_REG_CALIBRATION, INA220_calValue, w)
  /\ trace' = <<Txn("write", INA220_REG_CALIBRATION, ToUint16(INA220_calValue), w),
                Txn("read", INA220_REG_POWER, value, ok)>>
  /\ _success' = ok
  /\ UNCHANGED selected

getBusVoltage_raw(v, ok, junk) ==
  /\ i2c_dev # NULL
  /\ BusVoltageRead(ReadInto(v, ok, junk), ok)
  /\ ret' = Int16(BusVoltageRaw(ReadInto(v, ok, junk)))
  /\ lastCall' = Call("getBusVoltage_raw", 0)
  /\ UNCHANGED <<INA220_i2caddr, begun, i2c_dev, ctl>>

getShuntVoltage_raw(v, ok, junk) ==
  /\ i2c_dev # NULL
  /\ ShuntVoltageRead(ReadInto(v, ok, junk), ok)
  /\ ret' = Int16(ToInt16(ReadInto(v, ok, junk)))
  /\ lastCall' = Call("getShuntVoltage_raw", 0)
  /\ UNCHANGED <<INA220_i2caddr, begun, i2c_dev, ctl>>

getCurrent_raw(v, w, ok, junk) ==
  /\ i2c_dev # NULL
  /\ CurrentRead(ReadInto(v, ok, junk), w, ok)
  /\ ret' = Int16(ToInt16(ReadInto(v, ok, junk)))
  /\ lastCall' = Call("getCurrent_raw", 0)
  /\ UNCHANGED <<INA220_i2caddr, begun, i2c_dev, ctl>>

getPower_raw(v, w, ok, junk) ==
  /\ i2c_dev # NULL
  /\ PowerRead(ReadInto(v, ok, junk), w, ok)
  /\ ret' = Int16(ToInt16(ReadInto(v, ok, junk)))
  /\ lastCall' = Call("getPower_raw", 0)
  /\ UNCHANGED <<INA220_i2caddr, begun, i2c_dev, ctl>>

(***************************************************************************)
(* Unit conversions: a fresh raw read, then one float operation.           *)
(***************************************************************************)
\* value * 0.01
ShuntVoltage_mV(raw) == Float(raw, 100)

\* value * 0.001
BusVoltage_V(raw) == Float(raw, 1000)

\* Variant: the raw current is multiplied by the divisor.
Current_mA_Multiply(raw, divider) == Float(raw * divider[1], divider[2])

\* valueDec /= INA220_currentDivider_mA
Current_mA(raw, divider) == Float(raw * divider[2], divider[1])

\* valueDec *= INA220_powerMultiplier_mW
Power_mW(raw, multiplier) == Float(raw * multiplier[1], multiplier[2])

getShuntVoltage_mV(v, ok, junk) ==
  /\ i2c_dev # NULL
  /\ ShuntVoltageRead(ReadInto(v, ok, junk), ok)
  /\ ret' = ShuntVoltage_mV(ToInt16(ReadInto(v, ok, junk)))
  /\ lastCall' = Call("getShuntVoltage_mV", 0)
  /\ UNCHANGED <<INA220_i2caddr, begun, i2c_dev, ctl>>

getBusVoltage_V(v, ok, junk) ==
  /\ i2c_dev # NULL
  /\ BusVoltageRead(ReadInto(v, ok, junk), ok)
  /\ ret' = BusVoltage_V(BusVoltageRaw(ReadInto(v, ok, junk)))
  /\ lastCall' = Call("getBusVoltage_V", 0)
  /\ UNCHANGED <<INA220_i2caddr, begun, i2c_dev, ctl>>

getCurrent_mA(v, w, ok, junk) ==
  /\ i2c_dev # NULL
  /\ CurrentRead(ReadInto(v, ok, junk), w, ok)
  /\ ret' = Current_mA(ToInt16(ReadInto(v, ok, junk)), INA220_currentDivider_mA)
  /\ lastCall' = Call("getCurrent_mA", 0)
  /\ UNCHANGED <<INA220_i2caddr, begun, i2c_dev, ctl>>

getPower_mW(v, w, ok, junk) ==
  /\ i2c_dev # NULL
  /\ PowerRead(ReadInto(v, ok, junk), w, ok)
  /\ ret' = Power_mW(ToInt16(ReadInto(v, ok, junk)), INA220_powerMultiplier_mW)
  /\ lastCall' = Call("getPower_mW", 0)
  /\ UNCHANGED <<INA220_i2caddr, begun, i2c_dev, ctl>>

(***************************************************************************)
(* Power management and status.                                            *)
(***************************************************************************)
PowerSaveMode(on) ==
  IF on THEN INA220_CONFIG_MODE_POWERDOWN ELSE INA220_CONFIG_MODE_SANDBVOLT_CONTINUOUS

\* A bit-slice write of the 3 mode bits at bit 0 of the configuration register.
powerSave(on, ok) ==
  /\ i2c_dev # NULL
  /\ dev' = BitsWrite(dev, INA220_REG_CONFIG, PowerSaveMode(on), 3, 0, ok)
  /\ trace' = <<Txn("write", INA220_REG_CONFIG, BitsPayload(PowerSaveMode(on), 3, 0), ok)>>
  /\ _success' = ok
  /\ selected' = [selected EXCEPT !.intact = FALSE]
  /\ lastCall' = Call("powerSave", IF on THEN 1 ELSE 0)
  /\ ret' = Void
  /\ UNCHANGED <<INA220_i2caddr, begun, i2c_dev, ctl>>

success == _success

(***************************************************************************)
(* Specifications.                                                         *)
(***************************************************************************)
\* What a failed read may leave in the caller's variable.
Junk(ok) == IF ok THEN {0} ELSE {ToUint16(u) : u \in UninitValues}

\* What the addressed measurement register may hold when a read delivers it.
Reg(ok) == IF ok THEN RawValues ELSE {0}

Next ==
  \/ \E t \in Wires, ok \in BOOLEAN :
       \E w1 \in (IF ok THEN BOOLEAN ELSE {FALSE}), w2 \in (IF ok THEN BOOLEAN ELSE {FALSE}) :
         begin(t, ok, w1, w2)
  \/ \E w1, w2 \in BOOLEAN : setCalibration_ATDev_32V_2A(w1, w2)
  \/ \E w1, w2 \in BOOLEAN : setCalibration_32V_2A(w1, w2)
  \/ \E w1, w2 \in BOOLEAN : setCalibration_32V_1A(w1, w2)
  \/ \E w1, w2 \in BOOLEAN : setCalibration_16V_400mA(w1, w2)
  \/ \E ok \in BOOLEAN : \E v \in Reg(ok), junk \in Junk(ok) :
       getBusVoltage_raw(v, ok, junk)
  \/ \E ok \in BOOLEAN : \E v \in Reg(ok), junk \in Junk(ok) :
       getShuntVoltage_raw(v, ok, junk)
  \/ \E w, ok \in BOOLEAN : \E v \in Reg(ok), junk \in Junk(ok) :
       getCurrent_raw(v, w, ok, junk)
  \/ \E w, ok \in BOOLEAN : \E v \in Reg(ok), junk \in Junk(ok) :
       getPower_raw(v, w, ok, junk)
  \/ \E ok \in BOOLEAN : \E v \in Reg(ok), junk \in Junk(ok) :
       getShuntVoltage_mV(v, ok, junk)
  \/ \E ok \in BOOLEAN : \E v \in Reg(ok), junk \in Junk(ok) :
       getBusVoltage_V(v, ok, junk)
  \/ \E w, ok \in BOOLEAN : \E v \in Reg(ok), junk \in Junk(ok) :
       getCurrent_mA(v, w, ok, junk)
  \/ \E w, ok \in BOOLEAN : \E v \in Reg(ok), junk \in Junk(ok) :
       getPower_mW(v, w, ok, junk)
  \/ \E on, ok \in BOOLEAN : powerSave(on, ok)

Spec == Init /\ [][Next]_vars

(***************************************************************************)
(* SpecBus: a begun controller polling the bus voltage while the device's  *)
(* bus-voltage register steps through every content 0..MaxBusValue.        *)
(***************************************************************************)
InitBus ==
  /\ INA220_i2caddr = 64
  /\ i2c_dev = [addr |-> 64, wire |-> 1]
  /\ INA220_calValue = 32000
  /\ INA220_currentDivider_mA = <<25, 8>>
  /\ INA220_powerMultiplier_mW = <<32, 5>>
  /\ _success = TRUE
  /\ dev = [r \in {INA220_REG_CONFIG, INA220_REG_CALIBRATION} |->
              IF r = INA220_REG_CONFIG THEN Config_ATDev_32V_2A ELSE 32000]
  /\ lastCall = Call("begin", 1)
  /\ trace = <<Txn("probe", 64, 0, TRUE),
               Txn("write", INA220_REG_CALIBRATION, 32000, TRUE),
               Txn("write", INA220_REG_CONFIG, Config_ATDev_32V_2A, TRUE)>>
  /\ ret = Bool(TRUE)
  /\ selected = [profile |-> "ATDev_32V_2A", intact |-> TRUE]
  /\ begun = TRUE

BusSample ==
  IF lastCall.op \in {"getBusVoltage_raw", "getBusVoltage_V"}
    THEN ToUint16((trace[1].val + 1) % (MaxBusValue + 1))
    ELSE 0

NextBus ==
  \/ \E ok \in BOOLEAN : \E junk \in Junk(ok) : getBusVoltage_raw(BusSample, ok, junk)
  \/ \E ok \in BOOLEAN : \E junk \in Junk(ok) : getBusVoltage_V(BusSample, ok, junk)

SpecBus == InitBus /\ [][NextBus]_vars

(***************************************************************************)
(* Properties.                                                             *)
(*                                                                         *)
(* ProfileTable is the documented calibration table; FieldCode gives the   *)
(* device's encoding of each documented configuration field.               *)
(***************************************************************************)
ProfileTable ==
  [ATDev_32V_2A |-> [cal |-> 32000, divider |-> <<3125, 1000>>, multiplier |-> <<64, 10>>,
                     range |-> "32V", gain |-> "gain1"],
   32V_2A       |-> [cal |-> 4096, divider |-> <<10, 1>>, multiplier |-> <<2, 1>>,
                     range |-> "32V", gain |-> "gain8"],
   32V_1A       |-> [cal |-> 10240, divider |-> <<25, 1>>, multiplier |-> <<8, 10>>,
                     range |-> "32V", gain |-> "gain8"],
   16V_400mA    |-> [cal |-> 8192, divider |-> <<20, 1>>, multiplier |-> <<10, 10>>,
                     range |-> "16V", gain |-> "gain1"]]

ProfileNames == DOMAIN ProfileTable

FieldCode ==
  [16V |-> 0, 32V |-> 1, gain1 |-> 0, gain8 |-> 3, badc12bit |-> 3,
   sadc12bit1s |-> 3, continuous |-> 7, powerdown |-> 0]

\* The five configuration fields of a register word, and the two unused top bits.
ConfigFields(word) ==
  [range |-> Field(word, 13, 1), gain |-> Field(word, 11, 2), badc |-> Field(word, 7, 4),
   sadc |-> Field(word, 3, 4), mode |-> Field(word, 0, 3), unused |-> Field(word, 14, 2)]

ProfileFields(p) ==
  [range |-> FieldCode[ProfileTable[p].range], gain |-> FieldCode[ProfileTable[p].gain],
   badc |-> FieldCode.badc12bit, sadc |-> FieldCode.sadc12bit1s,
   mode |-> FieldCode.continuous, unused |-> 0]

RatEq(a, b) == a[1] * b[2] = b[1] * a[2]

SelectionOp(p) == "setCalibration_" \o p

SelectionOps == {SelectionOp(p) : p \in ProfileNames}

LastTxn == trace[Len(trace)]

\* C1: after a profile selection whose two writes both succeed, the device's
\* calibration register holds that profile's constant from the table and its
\* configuration register holds exactly the profile's five fields.
C1_ProfileRegisters ==
  \A p \in ProfileNames :
    (lastCall.op = SelectionOp(p) /\ trace[1].ok /\ trace[2].ok)
      => /\ dev[INA220_REG_CALIBRATION] = ProfileTable[p].cal
         /\ ConfigFields(dev[INA220_REG_CONFIG]) = ProfileFields(p)

C1_Witness ==
  /\ lastCall.op = "setCalibration_16V_400mA"
  /\ trace[1].ok /\ trace[2].ok
  /\ dev[INA220_REG_CALIBRATION] = 8192

C3_RewriteThenRead ==
  /\ lastCall.op \in {"getCurrent_raw", "getCurrent_mA"}
       => /\ Len(trace) = 2
          /\ trace[1] = Txn("write", INA220_REG_CALIBRATION, ToUint16(INA220_calValue),
                            trace[1].ok)
          /\ trace[2].op = "read" /\ trace[2].reg = INA220_REG_CURRENT
  /\ lastCall.op \in {"getPower_raw", "getPower_mW"}
       => /\ Len(trace) = 2
          /\ trace[1] = Txn("write", INA220_REG_CALIBRATION, ToUint16(INA220_calValue),
                            trace[1].ok)
          /\ trace[2].op = "read" /\ trace[2].reg = INA220_REG_POWER

C3_Witness ==
  /\ lastCall.op = "getCurrent_raw"
  /\ ~trace[1].ok
  /\ trace[2].ok

\* C4: right after a profile selection, getCurrent_raw or getPower_raw,
\* success() equals the outcome of the call's second (final) transaction,
\* whatever the outcome of the first.
C4_SuccessIsFinalStep ==
  lastCall.op \in SelectionOps \cup {"getCurrent_raw", "getPower_raw"}
    => /\ Len(trace) = 2
       /\ success = trace[2].ok

C4_Witness ==
  /\ lastCall.op = "setCalibration_32V_1A"
  /\ ~trace[1].ok
  /\ trace[2].ok
  /\ success

\* C5 as stated: after any sequence of public operations, success() is true
\* exactly when the last bus transaction the driver issued succeeded, also
\* when that transaction is the failed transport initialisation of begin.
C5_SuccessIsLastTransaction ==
  trace # <<>> => (success <=> LastTxn.ok)

\* C6: after powerSave(on) with a succeeding write the configuration
\* register's mode bits hold the power-down code (on) or the continuous code
\* (off) and every other field is zero, so the register holds no profile's
\* configuration.
C6_PowerSaveZeroesFields ==
  (lastCall.op = "powerSave" /\ trace[1].ok)
    => /\ ConfigFields(dev[INA220_REG_CONFIG]) =
            [range |-> 0, gain |-> 0, badc |-> 0, sadc |-> 0, unused |-> 0,
             mode |-> IF lastCall.arg = 1 THEN FieldCode.powerdown
                                          ELSE FieldCode.continuous]
       /\ \A p \in ProfileNames :
            ConfigFields(dev[INA220_REG_CONFIG]) # ProfileFields(p)

C6_Witness ==
  /\ lastCall.op = "powerSave" /\ lastCall.arg = 0 /\ trace[1].ok
  /\ selected.profile = "32V_1A"
  /\ dev[INA220_REG_CALIBRATION] = 10240
  /\ dev[INA220_REG_CONFIG] = 7

\* C7: for every 16-bit content v of the bus-voltage register,
\* getBusVoltage_raw returns 4 * floor(v / 8): a multiple of 4 in 0..32764
\* that does not depend on the 3 low-order bits of v and is never negative.
C7_BusVoltageRaw ==
  (lastCall.op = "getBusVoltage_raw" /\ trace[1].ok)
    => /\ ret.val = 4 * (trace[1].val \div 8)
       /\ ret.val = 4 * ((trace[1].val - (trace[1].val % 8)) \div 8)
       /\ ret.val % 4 = 0
       /\ ret.val >= 0 /\ ret.val <= 32764

C7_Witness ==
  /\ lastCall.op = "getBusVoltage_raw" /\ trace[1].ok
  /\ trace[1].val = 65531
  /\ ret.val = 32764

\* The device holds profile p and the controller has stored p's scalars.
ProfileActive(p) ==
  /\ dev[INA220_REG_CALIBRATION] = ProfileTable[p].cal
  /\ ConfigFields(dev[INA220_REG_CONFIG]) = ProfileFields(p)
  /\ INA220_calValue = ProfileTable[p].cal
  /\ RatEq(INA220_currentDivider_mA, ProfileTable[p].divider)
  /\ RatEq(INA220_powerMultiplier_mW, ProfileTable[p].multiplier)

C9_Conversions ==
  /\ (lastCall.op = "getCurrent_mA" /\ selected.profile # "none" /\ trace[2].ok)
       => /\ Len(trace) = 2
          /\ trace[1].op = "write" /\ trace[1].reg = INA220_REG_CALIBRATION
          /\ trace[2].op = "read" /\ trace[2].reg = INA220_REG_CURRENT
          /\ RatEq(ret.val, <<ToInt16(trace[2].val) * ProfileTable[selected.profile].divider[2],
                              ProfileTable[selected.profile].divider[1]>>)
          /\ (selected.profile = "32V_1A" /\ trace[2].val = 100) => RatEq(ret.val, <<4, 1>>)
  /\ (lastCall.op = "getPower_mW" /\ selected.profile # "none" /\ trace[2].ok)
       => /\ Len(trace) = 2
          /\ trace[1].op = "write" /\ trace[1].reg = INA220_REG_CALIBRATION
          /\ trace[2].op = "read" /\ trace[2].reg = INA220_REG_POWER
          /\ RatEq(ret.val, <<ToInt16(trace[2].val) * ProfileTable[selected.profile].multiplier[1],
                              ProfileTable[selected.profile].multiplier[2]>>)
          /\ (selected.profile = "32V_1A" /\ trace[2].val = 50) => RatEq(ret.val, <<40, 1>>)

C9_Witness ==
  /\ lastCall.op = "getCurrent_mA"
  /\ selected.profile = "32V_1A"
  /\ trace[2].ok /\ trace[2].val = 100
  /\ ret.val[2] # 0
  /\ RatEq(ret.val, <<4, 1>>)

\* C10 as stated: after every call begin(t) the device handle is bound to the
\* address fixed at construction and to the transport t of that call, and
\* begin returns false, with no profile applied, exactly when the transport
\* fails to initialise.
C10_BeginBindsGivenTransport ==
  lastCall.op = "begin"
    => /\ i2c_dev.addr = INA220_i2caddr
       /\ i2c_dev.wire = lastCall.arg
       /\ (~ret.val) <=> (~trace[1].ok)
       /\ (~ret.val) => Len(trace) = 1

\* The controller's stored triple is row p of the table.
TripleIs(p) ==
  /\ INA220_calValue = ProfileTable[p].cal
  /\ RatEq(INA220_currentDivider_mA, ProfileTable[p].divider)
  /\ RatEq(INA220_powerMultiplier_mW, ProfileTable[p].multiplier)

\* A step that applies a profile: an explicit selection, or a begin that
\* returns true.
SelectionStep ==
  \/ lastCall'.op \in SelectionOps
  \/ lastCall'.op = "begin" /\ ret'.val

C11_TripleState ==
  /\ selected.profile # "none"
       => /\ TripleIs(selected.profile)
          /\ \A q \in ProfileNames \ {selected.profile} : ~TripleIs(q)
          /\ INA220_currentDivider_mA[1] # 0
  /\ selected.profile = "none"
       => /\ INA220_currentDivider_mA[1] = 0
          /\ lastCall.op = "getCurrent_mA" => ret.val[2] = 0

\* C11: the stored triple (calibration constant, current divisor, power
\* multiplier) changes only in a profile selection, which stores it whatever
\* the outcome of its writes.  After the first selection the triple is
\* exactly one row of the table and the divisor is not zero; before it the
\* divisor is 0 and getCurrent_mA divides by zero.
C11_TripleFromSelectionOnly ==
  /\ []C11_TripleState
  /\ [][(ctl' # ctl) => SelectionStep]_vars
  /\ [][SelectionStep
          => \E p \in ProfileNames : selected'.profile = p /\ TripleIs(p)']_vars

C11_Witness ==
  /\ lastCall.op = "setCalibration_32V_1A"
  /\ ~trace[1].ok /\ ~trace[2].ok
  /\ dev[INA220_REG_CALIBRATION] # 10240
  /\ TripleIs("32V_1A")

C11_DivideByZeroReached ==
  /\ lastCall.op = "getCurrent_mA"
  /\ selected.profile = "none"
  /\ ret.val[2] = 0

====
